---- MODULE Spec2Model ----
(***************************************************************************)
(* Job lifecycle and material-loss ledger of the jewelry production        *)
(* backend (src/main.py, src/models.py).                                   *)
(*                                                                         *)
(* Units.  A weight in a request body is an integer number of tenths of a  *)
(* milligram (1 = 0.0001 g); a stored weight or loss is an integer number  *)
(* of milligrams (1 = 0.001 g), which is what round(v, 3) produces.  A     *)
(* percentage is an integer number of thousandths of a percent, truncated. *)
(* Arithmetic on stored weights is exact: binary floating point error of   *)
(* the subtraction and the addition is below the resolution of the model.  *)
(*                                                                         *)
(* A nullable column holds None (the empty sequence) or Some(v).           *)
(***************************************************************************)
EXTENDS Integers, Sequences, FiniteSets, Bags, TLC

VARIABLES jobs, transactions, inflight, resp

vars == <<jobs, transactions, inflight, resp>>

(* ------------------------------ bounds --------------------------------- *)

MaxJobs == 1
MaxTxns == 2
MaxTotalLoss == 3
MaxInFlight == 2
MaxReportJobs == 3

(* ------------------------------ values --------------------------------- *)

None == <<>>
Some(v) == <<v>>

UserRole == {"owner", "caster", "filer", "setter", "polisher"}
JobStatus == {"created", "in_progress", "pending_assignment", "completed", "cancelled"}
ProductionStage == {"casting", "filing", "setting", "polishing"}

\* The users table, read-only here: one owner and two workers.
users == [u \in 1..3 |-> IF u = 1 THEN "owner" ELSE IF u = 2 THEN "caster" ELSE "filer"]
UserIds == DOMAIN users

\* Request inputs.
\* Weights in tenths of a milligram: 0 is rejected, 4 (0.0004 g) is accepted
\* and rounds to 0.000, 10 and 20 are 0.001 g and 0.002 g.
InitialWeightInputs == {0, 4, 20}
IssuedWeightInputs == {0, 4, 20}
ReturnedWeightInputs == {0, 4, 10, 20}
WorkerIdInputs == {2, 3}
StageInputs == {"casting"}
StatusInputs == JobStatus \cup {"bogus"}
DesignInputs == {"D1"}
CategoryInputs == {"ring"}
NotesInputs == {None}
JobIdInputs == 1..MaxJobs
TxnIdInputs == 1..MaxTxns

(* --------------------------- pure functions ---------------------------- *)

\* round(v, 3) of a non-negative weight given in tenths of a milligram.
Round3(v) == (v + 5) \div 10

\* pydantic: Field(gt=0) and the validator's "if v <= 0: raise".
WeightRejected(v) == v <= 0

\* (loss / base) * 100 if base > 0 else 0
LossPercentage(loss, base) == IF base > 0 THEN (loss * 100 * 1000) \div base ELSE 0

\* if current_user["role"] != "owner": raise HTTPException(status_code=403)
NotOwnerNeverRaises(role) == FALSE
NotOwner(role) == role # "owner"

\* except Exception as e: raise HTTPException(status_code=500, detail=str(e))
\* An HTTPException raised inside the try block is an Exception as well.
Caught(code) == 500

Resp(op, code) == [op |-> op, code |-> code]

(* ------------------------------ storage -------------------------------- *)

\* Rows are never deleted, so a table is a sequence and a row's id its index.
\* Columns written once at insert and read by no operation modelled here
\* (created_by, created_at, issued_at) are left out of the rows.

\* table("jobs").select("*").eq("id", job_id): the ids of the rows found.
SelectJob(js, job_id) == {j \in DOMAIN js : j = job_id}

\* table("transactions").select("*").eq("id", id).eq("worker_id", worker)
SelectTxn(ts, id, worker) == {t \in DOMAIN ts : t = id /\ ts[t].worker_id = worker}

\* create_job: job_dict, inserted.  current_worker_id is not in job_dict and
\* takes the column's default.
NewJob(job_data) ==
    [design_no |-> job_data.design_no,
     item_category |-> job_data.item_category,
     description |-> job_data.description,
     initial_weight |-> Round3(job_data.initial_weight),
     status |-> "created",
     current_stage |-> None,
     current_worker_id |-> None,
     total_loss |-> 0,
     loss_percentage |-> 0]

\* update_job: table("jobs").update(update_data).eq("id", job_id), where
\* update_data holds the fields of the body that were set (Some(v)).
ApplyUpdateResettingLoss(job, job_update) ==
    [job EXCEPT
       !.design_no = IF job_update.design_no = None THEN @ ELSE job_update.design_no[1],
       !.item_category = IF job_update.item_category = None THEN @ ELSE job_update.item_category[1],
       !.description = IF job_update.description = None THEN @ ELSE job_update.description[1],
       !.status = IF job_update.status = None THEN @ ELSE job_update.status[1],
       !.total_loss = 0]
ApplyUpdate(job, job_update) ==
    [job EXCEPT
       !.design_no = IF job_update.design_no = None THEN @ ELSE job_update.design_no[1],
       !.item_category = IF job_update.item_category = None THEN @ ELSE job_update.item_category[1],
       !.description = IF job_update.description = None THEN @ ELSE job_update.description[1],
       !.status = IF job_update.status = None THEN @ ELSE job_update.status[1]]

UpdateJobRow(js, job_id, job_update) ==
    IF job_id \in DOMAIN js
    THEN [js EXCEPT ![job_id] = ApplyUpdate(@, job_update)]
    ELSE js

\* assign_job: transaction_dict, inserted.
NewTransaction(job_id, assignment) ==
    [job_id |-> job_id,
     worker_id |-> assignment.worker_id,
     stage |-> assignment.stage,
     issued_weight |-> Round3(assignment.issued_weight),
     status |-> "in_progress",
     returned_weight |-> None,
     returned_at |-> None,
     loss |-> None,
     loss_percentage |-> None,
     notes |-> None]

\* assign_job: table("jobs").update({status, current_stage, current_worker_id}).eq("id", job_id)
AssignJobRow(js, job_id, assignment) ==
    IF job_id \in DOMAIN js
    THEN [js EXCEPT ![job_id].status = "in_progress",
                    ![job_id].current_stage = Some(assignment.stage),
                    ![job_id].current_worker_id = Some(assignment.worker_id)]
    ELSE js

\* complete_task: if task_completion.returned_weight > transaction["issued_weight"]
ReturnedExceedsIssuedUnchecked(returned, issued) == FALSE
ReturnedExceedsIssued(returned, issued) == returned > issued

\* complete_task: loss = transaction["issued_weight"] - task_completion.returned_weight
LossOperandsSwapped(issued, returned) == returned - issued
Loss(issued, returned) == issued - returned

\* complete_task: table("transactions").update(update_data).eq("id", transaction_id)
CompleteTxnRowWithoutReturnedAt(ts, id, returned, loss, pct, notes, now) ==
    IF id \in DOMAIN ts
    THEN [ts EXCEPT ![id].returned_weight = Some(returned),
                    ![id].loss = Some(loss),
                    ![id].loss_percentage = Some(pct),
                    ![id].status = "completed",
                    ![id].notes = notes]
    ELSE ts
CompleteTxnRow(ts, id, returned, loss, pct, notes, now) ==
    IF id \in DOMAIN ts
    THEN [ts EXCEPT ![id].returned_weight = Some(returned),
                    ![id].returned_at = Some(now),
                    ![id].loss = Some(loss),
                    ![id].loss_percentage = Some(pct),
                    ![id].status = "completed",
                    ![id].notes = notes]
    ELSE ts

\* complete_task: new_total_loss = job["total_loss"] + loss, from the job row read
NewTotalLoss(job, loss) == job.total_loss + loss

\* complete_task: table("jobs").update({total_loss, loss_percentage,
\* current_worker_id: None, status: "pending_assignment"}).eq("id", job_id)
CompleteJobRowStalePercentage(js, job_id, new_total_loss, new_loss_percentage) ==
    IF job_id \in DOMAIN js
    THEN [js EXCEPT ![job_id].total_loss = new_total_loss,
                    ![job_id].current_worker_id = None,
                    ![job_id].status = "pending_assignment"]
    ELSE js
CompleteJobRow(js, job_id, new_total_loss, new_loss_percentage) ==
    IF job_id \in DOMAIN js
    THEN [js EXCEPT ![job_id].total_loss = new_total_loss,
                    ![job_id].loss_percentage = new_loss_percentage,
                    ![job_id].current_worker_id = None,
                    ![job_id].status = "pending_assignment"]
    ELSE js

(* --------------------------- request bodies ---------------------------- *)

JobCreateInputs ==
    [design_no : DesignInputs, item_category : CategoryInputs,
     description : {None}, initial_weight : InitialWeightInputs]

JobUpdateInputs ==
    [design_no : {None} \cup {Some(d) : d \in DesignInputs},
     item_category : {None},
     description : {None},
     status : {None} \cup {Some(s) : s \in StatusInputs}]

JobAssignmentInputs ==
    [worker_id : WorkerIdInputs, stage : StageInputs, issued_weight : IssuedWeightInputs]

WorkerTaskCompletionInputs ==
    [transaction_id : TxnIdInputs, returned_weight : ReturnedWeightInputs, notes : NotesInputs]

\* datetime.utcnow(): an opaque reading; no operation compares two of them.
Times == {1}

\* Request validation (pydantic), done before the handler's body runs.
JobCreateRejected(job_data) == WeightRejected(job_data.initial_weight)
JobUpdateRejected(job_update) ==
    job_update.status # None /\ job_update.status[1] \notin JobStatus
JobAssignmentRejected(assignment) ==
    WeightRejected(assignment.issued_weight) \/ assignment.stage \notin ProductionStage
WorkerTaskCompletionRejected(tc) == WeightRejected(tc.returned_weight)

\* job_update.dict(exclude_unset=True) is empty
NoUpdateData(job_update) ==
    /\ job_update.design_no = None
    /\ job_update.item_category = None
    /\ job_update.description = None
    /\ job_update.status = None

\* The requests whose handler is between two storage calls: a bag of records.
Quiescent == inflight = EmptyBag

(* ------------------- handlers, one request at a time ------------------- *)

create_job(u, job_data) ==
    /\ UNCHANGED <<transactions, inflight>>
    /\ IF JobCreateRejected(job_data)
       THEN resp' = Resp("create_job", 422) /\ UNCHANGED jobs
       ELSE IF NotOwner(users[u])
       THEN resp' = Resp("create_job", 403) /\ UNCHANGED jobs
       ELSE /\ Len(jobs) < MaxJobs
            /\ jobs' = Append(jobs, NewJob(job_data))
            /\ resp' = Resp("create_job", 200)

update_job(u, job_id, job_update) ==
    /\ UNCHANGED <<transactions, inflight>>
    /\ IF JobUpdateRejected(job_update)
       THEN resp' = Resp("update_job", 422) /\ UNCHANGED jobs
       ELSE IF NotOwner(users[u])
       THEN resp' = Resp("update_job", 403) /\ UNCHANGED jobs
       ELSE IF NoUpdateData(job_update)
       THEN resp' = Resp("update_job", Caught(400)) /\ UNCHANGED jobs
       ELSE /\ jobs' = UpdateJobRow(jobs, job_id, job_update)
            /\ resp' = Resp("update_job",
                             IF SelectJob(jobs, job_id) = {} THEN Caught(404) ELSE 200)

\* get_job: the job row and its transactions, read only.
get_job(u, job_id) ==
    /\ UNCHANGED <<jobs, transactions, inflight>>
    /\ resp' = Resp("get_job", IF SelectJob(jobs, job_id) = {} THEN Caught(404) ELSE 200)

assign_job(u, job_id, assignment) ==
    /\ UNCHANGED inflight
    /\ IF JobAssignmentRejected(assignment)
       THEN resp' = Resp("assign_job", 422) /\ UNCHANGED <<jobs, transactions>>
       ELSE IF NotOwner(users[u])
       THEN resp' = Resp("assign_job", 403) /\ UNCHANGED <<jobs, transactions>>
       ELSE IF SelectJob(jobs, job_id) = {}
       THEN resp' = Resp("assign_job", Caught(404))
            /\ UNCHANGED <<jobs, transactions>>
       ELSE /\ Len(transactions) < MaxTxns
            /\ transactions' = Append(transactions, NewTransaction(job_id, assignment))
            /\ jobs' = AssignJobRow(jobs, job_id, assignment)
            /\ resp' = Resp("assign_job", 200)

complete_task(u, tc, now) ==
    /\ UNCHANGED inflight
    /\ IF WorkerTaskCompletionRejected(tc)
       THEN resp' = Resp("complete_task", 422)
            /\ UNCHANGED <<jobs, transactions>>
       ELSE IF users[u] = "owner"
       THEN resp' = Resp("complete_task", 403)
            /\ UNCHANGED <<jobs, transactions>>
       ELSE IF SelectTxn(transactions, tc.transaction_id, u) = {}
       THEN resp' = Resp("complete_task", Caught(404))
            /\ UNCHANGED <<jobs, transactions>>
       ELSE LET transaction == transactions[tc.transaction_id]
                returned == Round3(tc.returned_weight)
            IN  IF ReturnedExceedsIssued(returned, transaction.issued_weight)
                THEN resp' = Resp("complete_task", Caught(400))
                     /\ UNCHANGED <<jobs, transactions>>
                ELSE LET loss == Loss(transaction.issued_weight, returned)
                         loss_percentage == LossPercentage(loss, transaction.issued_weight)
                         job == jobs[transaction.job_id]
                         new_total_loss == NewTotalLoss(job, loss)
                         new_loss_percentage ==
                             LossPercentage(new_total_loss, job.initial_weight)
                     IN  /\ new_total_loss <= MaxTotalLoss
                         /\ transactions' = CompleteTxnRow(transactions, tc.transaction_id,
                                returned, loss, loss_percentage, tc.notes, now)
                         /\ jobs' = CompleteJobRow(jobs, transaction.job_id,
                                new_total_loss, new_loss_percentage)
                         /\ resp' = Resp("complete_task", 200)

Init ==
    /\ jobs = <<>>
    /\ transactions = <<>>
    /\ inflight = EmptyBag
    /\ resp = Resp("none", 0)

CreateJob == \E u \in UserIds, d \in JobCreateInputs : create_job(u, d)
UpdateJob == \E u \in UserIds, j \in JobIdInputs, d \in JobUpdateInputs : update_job(u, j, d)
GetJob == \E u \in UserIds, j \in JobIdInputs : get_job(u, j)
AssignJob == \E u \in UserIds, j \in JobIdInputs, a \in JobAssignmentInputs : assign_job(u, j, a)
CompleteTask ==
    \E u \in UserIds, tc \in WorkerTaskCompletionInputs, now \in Times : complete_task(u, tc, now)

Next == CreateJob \/ UpdateJob \/ GetJob \/ AssignJob \/ CompleteTask

Spec == Init /\ [][Next]_vars

(* ------------- handlers, one storage call at a time -------------------- *)
(* Each request is handled independently of the others and every          *)
(* table(...).execute() is one storage call; nothing joins the calls of   *)
(* a handler into a storage transaction, so the calls of different        *)
(* requests interleave, and a call may raise or the process may stop      *)
(* between two calls of one handler.                                      *)

Started(r) == inflight (+) SetToBag({r})
Finished(r) == inflight (-) SetToBag({r})
Moved(r, q) == (inflight (-) SetToBag({r})) (+) SetToBag({q})
InFlight == BagToSet(inflight)

AssignRequest(pc, job_id, assignment) ==
    [op |-> "assign_job", pc |-> pc, job_id |-> job_id, assignment |-> assignment]

CompleteRequest(pc, u, tc, job_id, loss, loss_percentage, new_total_loss, new_loss_percentage) ==
    [op |-> "complete_task", pc |-> pc, user |-> u, tc |-> tc, job_id |-> job_id,
     loss |-> loss, loss_percentage |-> loss_percentage,
     new_total_loss |-> new_total_loss, new_loss_percentage |-> new_loss_percentage]

\* assign_job up to the try block, for a request that gets there: a request
\* rejected before it makes no storage call (see assign_job).
assign_begin(u, job_id, assignment) ==
    /\ BagCardinality(inflight) < MaxInFlight
    /\ ~JobAssignmentRejected(assignment)
    /\ users[u] = "owner"
    /\ inflight' = Started(AssignRequest("select_job", job_id, assignment))
    /\ UNCHANGED <<jobs, transactions, resp>>

\* job_result = table("jobs").select("*").eq("id", job_id).execute()
assign_select_job(r) ==
    /\ r.op = "assign_job" /\ r.pc = "select_job"
    /\ UNCHANGED <<jobs, transactions>>
    /\ IF SelectJob(jobs, r.job_id) = {}
       THEN inflight' = Finished(r) /\ resp' = Resp("assign_job", Caught(404))
       ELSE /\ inflight' = Moved(r, AssignRequest("insert_transaction", r.job_id, r.assignment))
            /\ UNCHANGED resp

\* transaction_result = table("transactions").insert(transaction_dict).execute()
assign_insert_transaction(r) ==
    /\ r.op = "assign_job" /\ r.pc = "insert_transaction"
    /\ Len(transactions) < MaxTxns
    /\ transactions' = Append(transactions, NewTransaction(r.job_id, r.assignment))
    /\ inflight' = Moved(r, AssignRequest("update_job", r.job_id, r.assignment))
    /\ UNCHANGED <<jobs, resp>>

\* table("jobs").update({...}).eq("id", job_id).execute(); return
assign_update_job(r) ==
    /\ r.op = "assign_job" /\ r.pc = "update_job"
    /\ jobs' = AssignJobRow(jobs, r.job_id, r.assignment)
    /\ inflight' = Finished(r)
    /\ resp' = Resp("assign_job", 200)
    /\ UNCHANGED transactions

\* complete_task up to the try block, for a request that gets there.
complete_begin(u, tc) ==
    /\ BagCardinality(inflight) < MaxInFlight
    /\ ~WorkerTaskCompletionRejected(tc)
    /\ users[u] # "owner"
    /\ inflight' = Started(CompleteRequest("select_transaction", u, tc, 0, 0, 0, 0, 0))
    /\ UNCHANGED <<jobs, transactions, resp>>

\* trans_result = table("transactions").select("*").eq("id", ..).eq("worker_id", ..)
\* .execute(), the two checks and the loss computed from the row read.
complete_select_transaction(r) ==
    /\ r.op = "complete_task" /\ r.pc = "select_transaction"
    /\ UNCHANGED <<jobs, transactions>>
    /\ IF SelectTxn(transactions, r.tc.transaction_id, r.user) = {}
       THEN inflight' = Finished(r) /\ resp' = Resp("complete_task", Caught(404))
       ELSE LET transaction == transactions[r.tc.transaction_id]
                returned == Round3(r.tc.returned_weight)
                loss == Loss(transaction.issued_weight, returned)
            IN  IF ReturnedExceedsIssued(returned, transaction.issued_weight)
                THEN inflight' = Finished(r) /\ resp' = Resp("complete_task", Caught(400))
                ELSE /\ inflight' = Moved(r, CompleteRequest("update_transaction",
                            r.user, r.tc, transaction.job_id, loss,
                            LossPercentage(loss, transaction.issued_weight), 0, 0))
                     /\ UNCHANGED resp

\* updated_trans = table("transactions").update(update_data).eq("id", ..).execute()
complete_update_transaction(r, now) ==
    /\ r.op = "complete_task" /\ r.pc = "update_transaction"
    /\ transactions' = CompleteTxnRow(transactions, r.tc.transaction_id,
            Round3(r.tc.returned_weight), r.loss, r.loss_percentage, r.tc.notes, now)
    /\ inflight' = Moved(r, [r EXCEPT !.pc = "select_job"])
    /\ UNCHANGED <<jobs, resp>>

\* job_result = table("jobs").select("*").eq("id", transaction["job_id"]).execute()
\* and the new totals computed from the row read.
complete_select_job(r) ==
    /\ r.op = "complete_task" /\ r.pc = "select_job"
    /\ LET job == jobs[r.job_id]
           new_total_loss == NewTotalLoss(job, r.loss)
       IN  /\ new_total_loss <= MaxTotalLoss
           /\ inflight' = Moved(r, [r EXCEPT !.pc = "update_job",
                    !.new_total_loss = new_total_loss,
                    !.new_loss_percentage = LossPercentage(new_total_loss, job.initial_weight)])
    /\ UNCHANGED <<jobs, transactions, resp>>

\* table("jobs").update({...}).eq("id", transaction["job_id"]).execute(); return
complete_update_job(r) ==
    /\ r.op = "complete_task" /\ r.pc = "update_job"
    /\ jobs' = CompleteJobRow(jobs, r.job_id, r.new_total_loss, r.new_loss_percentage)
    /\ inflight' = Finished(r)
    /\ resp' = Resp("complete_task", 200)
    /\ UNCHANGED transactions

\* The storage call a request has reached raises (or the process stops there):
\* the handler's except clause answers 500 and the remaining calls are not made.
storage_fault(r) ==
    /\ inflight' = Finished(r)
    /\ resp' = Resp(r.op, 500)
    /\ UNCHANGED <<jobs, transactions>>

\* The requests of the interleaved runs: one owner, one worker, and the
\* weights that make a loss and that make none.
ConcJobCreateInputs == {d \in JobCreateInputs : d.initial_weight \in {4, 20}}
ConcAssignmentInputs == {a \in JobAssignmentInputs : a.worker_id = 2 /\ a.issued_weight = 20}
ConcCompletionInputs == {tc \in WorkerTaskCompletionInputs : tc.returned_weight \in {10, 20}}

ConcCreateJob == \E d \in ConcJobCreateInputs : create_job(1, d)
AssignBegin == \E j \in JobIdInputs, a \in ConcAssignmentInputs : assign_begin(1, j, a)
AssignSelectJob == \E r \in InFlight : assign_select_job(r)
AssignInsertTransaction == \E r \in InFlight : assign_insert_transaction(r)
AssignUpdateJob == \E r \in InFlight : assign_update_job(r)
CompleteBegin == \E tc \in ConcCompletionInputs : complete_begin(2, tc)
CompleteSelectTransaction == \E r \in InFlight : complete_select_transaction(r)
CompleteUpdateTransaction == \E r \in InFlight, now \in Times : complete_update_transaction(r, now)
CompleteSelectJob == \E r \in InFlight : complete_select_job(r)
CompleteUpdateJob == \E r \in InFlight : complete_update_job(r)
StorageFault == \E r \in InFlight : storage_fault(r)

NextConc ==
    \/ ConcCreateJob
    \/ AssignBegin
    \/ AssignSelectJob
    \/ AssignInsertTransaction
    \/ AssignUpdateJob
    \/ CompleteBegin
    \/ CompleteSelectTransaction
    \/ CompleteUpdateTransaction
    \/ CompleteSelectJob
    \/ CompleteUpdateJob
    \/ StorageFault

SpecConc == Init /\ [][NextConc]_vars


(* ------------- administrative updates of a job that has a history ------------- *)

\* JobUpdate bodies that set each of the four fields, or leave it unset; a
\* description can be set to null.
JobUpdateDetailInputs ==
    [design_no : {None, Some("D2")},
     item_category : {None, Some("chain")},
     description : {None, Some(None), Some(Some("resized"))},
     status : {None, Some("cancelled"), Some("completed")}]

UpdCreateJob == \E d \in ConcJobCreateInputs : create_job(1, d)
UpdAssignJob == \E j \in JobIdInputs, a \in ConcAssignmentInputs : assign_job(1, j, a)
UpdCompleteTask == \E tc \in ConcCompletionInputs, now \in Times : complete_task(2, tc, now)
UpdUpdateJob == \E j \in JobIdInputs, d \in JobUpdateDetailInputs : update_job(1, j, d)

NextUpdate == UpdCreateJob \/ UpdAssignJob \/ UpdCompleteTask \/ UpdUpdateJob

SpecUpdate == Init /\ [][NextUpdate]_vars



(* ------------------ a job issued to a worker stage after stage ------------------ *)

\* A job of 0.002, and assignments that issue 0.002 or 0.004 of material to
\* user 2, a caster, or to user 1, the owner: worker_id is any int.
StageJobCreateInputs == {d \in JobCreateInputs : d.initial_weight = 20}
StageAssignmentInputs == [worker_id : {1, 2}, stage : StageInputs, issued_weight : {20, 40}]
StageCompletionInputs == {tc \in WorkerTaskCompletionInputs : tc.returned_weight \in {10, 20}}

StageCreateJob == \E d \in StageJobCreateInputs : create_job(1, d)
StageAssignJob == \E j \in JobIdInputs, a \in StageAssignmentInputs : assign_job(1, j, a)
StageCompleteTask ==
    \E u \in {1, 2}, tc \in StageCompletionInputs, now \in Times : complete_task(u, tc, now)
StageGetJob == \E u \in UserIds, j \in JobIdInputs : get_job(u, j)

NextStages == StageCreateJob \/ StageAssignJob \/ StageCompleteTask \/ StageGetJob

SpecStages == Init /\ [][NextStages]_vars

(* ------------------------------- reports ------------------------------- *)

\* sum(j[field] for j in rows), for the two fields the reports add up
RECURSIVE SumTotalLoss(_)
SumTotalLoss(js) ==
    IF js = <<>> THEN 0 ELSE Head(js).total_loss + SumTotalLoss(Tail(js))

RECURSIVE SumInitialWeight(_)
SumInitialWeight(js) ==
    IF js = <<>> THEN 0 ELSE Head(js).initial_weight + SumInitialWeight(Tail(js))

\* len([j for j in jobs.data if j["status"] == status])
CountStatus(js, status) == Len(SelectSeq(js, LAMBDA j : j.status = status))

\* pending = total_jobs - completed - in_progress
PendingOnlyNotCompleted(total_jobs, completed, in_progress) == total_jobs - completed
Pending(total_jobs, completed, in_progress) == total_jobs - completed - in_progress

\* round((total_loss / total_initial_weight * 100), 2) if total_initial_weight > 0
\* else 0, in hundredths of a percent, to the nearest
AverageLossPercentage(total_loss, total_initial_weight) ==
    IF total_initial_weight > 0
    THEN (2 * total_loss * 100 * 100 + total_initial_weight) \div (2 * total_initial_weight)
    ELSE 0

\* get_job_summary: the dictionary returned
JobSummary(js) ==
    LET total_jobs == Len(js)
        completed == CountStatus(js, "completed")
        in_progress == CountStatus(js, "in_progress")
        total_initial_weight == SumInitialWeight(js)
        total_loss == SumTotalLoss(js)
    IN  [total_jobs |-> total_jobs,
         completed_jobs |-> completed,
         in_progress_jobs |-> in_progress,
         pending_jobs |-> Pending(total_jobs, completed, in_progress),
         total_initial_weight |-> total_initial_weight,
         total_loss |-> total_loss,
         average_loss_percentage |-> AverageLossPercentage(total_loss, total_initial_weight)]

\* get_worker_performance: table("transactions").select(...).eq("status", "completed")
CompletedTransactions(ts) == SelectSeq(ts, LAMBDA t : t.status = "completed")

\* get_worker_performance: the loop that fills worker_stats, a dictionary kept
\* in insertion order: a sequence with one entry per worker_id met.
AddToWorkerStats(worker_stats, trans) ==
    IF \E i \in DOMAIN worker_stats : worker_stats[i].worker_id = trans.worker_id
    THEN [i \in DOMAIN worker_stats |->
            IF worker_stats[i].worker_id = trans.worker_id
            THEN [worker_stats[i] EXCEPT !.total_jobs = @ + 1,
                                         !.total_loss = @ + trans.loss[1]]
            ELSE worker_stats[i]]
    ELSE Append(worker_stats,
                [worker_id |-> trans.worker_id,
                 role |-> users[trans.worker_id],
                 total_jobs |-> 1,
                 total_loss |-> trans.loss[1]])

RECURSIVE WorkerStats(_, _)
WorkerStats(worker_stats, rows) ==
    IF rows = <<>> THEN worker_stats
    ELSE WorkerStats(AddToWorkerStats(worker_stats, Head(rows)), Tail(rows))

\* avg_loss = total_loss / total_jobs if total_jobs > 0 else 0: a quotient,
\* kept as the pair it is the quotient of; x.average_loss_percentage <
\* y.average_loss_percentage is the comparison of two such quotients.
AverageGreater(x, y) == x.total_loss * y.total_jobs > y.total_loss * x.total_jobs
AverageLess(x, y) == x.total_loss * y.total_jobs < y.total_loss * x.total_jobs

\* sorted(reports, key=lambda x: x.average_loss_percentage, reverse=True):
\* stable, so an entry goes behind the entries whose average is not lower.
RECURSIVE InsertDescending(_, _)
InsertDescending(sorted, x) ==
    IF sorted = <<>> THEN <<x>>
    ELSE IF AverageLess(Head(sorted), x)
         THEN <<x>> \o sorted
         ELSE <<Head(sorted)>> \o InsertDescending(Tail(sorted), x)

RECURSIVE SortedByAverage(_, _)
SortedByAverage(sorted, reports) ==
    IF reports = <<>> THEN sorted
    ELSE SortedByAverage(InsertDescending(sorted, Head(reports)), Tail(reports))

\* get_worker_performance: the list returned
WorkerPerformance(ts) ==
    SortedByAverage(<<>>, WorkerStats(<<>>, CompletedTransactions(ts)))

ReportResp(op, code, body) == [op |-> op, code |-> code, body |-> body]

get_job_summary(u) ==
    /\ UNCHANGED <<jobs, transactions, inflight>>
    /\ resp' = ReportResp("get_job_summary", 200, JobSummary(jobs))

get_worker_performance(u) ==
    /\ UNCHANGED <<jobs, transactions, inflight>>
    /\ IF NotOwner(users[u])
       THEN resp' = ReportResp("get_worker_performance", 403, <<>>)
       ELSE resp' = ReportResp("get_worker_performance", 200, WorkerPerformance(transactions))

\* The tables the reports are asked about: each job has been created and then,
\* or not, assigned, returned by its worker and given a status by the owner.
ReportJobInput ==
    [design_no |-> "D1", item_category |-> "ring", description |-> None, initial_weight |-> 20]
ReportAssignments == {a \in JobAssignmentInputs : a.issued_weight = 20}
ReportReturnedWeights == {10, 20}
ReportStatusUpdates == {"cancelled", "completed"}

ReportHistories ==
    {h \in [assignment : {None} \cup {Some(a) : a \in ReportAssignments},
            returned_weight : {None} \cup {Some(r) : r \in ReportReturnedWeights},
            status : {None} \cup {Some(st) : st \in ReportStatusUpdates}] :
        h.assignment = None => h.returned_weight = None}

\* create_job, assign_job, complete_task and update_job, as far as h goes, on the job's row
ReportJobRow(h) ==
    LET created == NewJob(ReportJobInput)
        assigned ==
            IF h.assignment = None THEN created
            ELSE AssignJobRow(<<created>>, 1, h.assignment[1])[1]
        returned ==
            IF h.returned_weight = None THEN assigned
            ELSE LET loss == Loss(Round3(h.assignment[1].issued_weight),
                                  Round3(h.returned_weight[1]))
                     new_total_loss == NewTotalLoss(assigned, loss)
                 IN  CompleteJobRow(<<assigned>>, 1, new_total_loss,
                         LossPercentage(new_total_loss, assigned.initial_weight))[1]
    IN  IF h.status = None THEN returned
        ELSE ApplyUpdate(returned, [design_no |-> None, item_category |-> None,
                                    description |-> None, status |-> h.status])

\* assign_job and complete_task, as far as h goes, on the transaction's row
ReportTransactionRow(job_id, h) ==
    LET inserted == NewTransaction(job_id, h.assignment[1])
    IN  IF h.returned_weight = None THEN inserted
        ELSE LET returned == Round3(h.returned_weight[1])
                 loss == Loss(inserted.issued_weight, returned)
             IN  CompleteTxnRow(<<inserted>>, 1, returned, loss,
                     LossPercentage(loss, inserted.issued_weight), None, 1)[1]

RECURSIVE ReportJobs(_)
ReportJobs(hs) ==
    IF hs = <<>> THEN <<>>
    ELSE Append(ReportJobs(SubSeq(hs, 1, Len(hs) - 1)), ReportJobRow(hs[Len(hs)]))

RECURSIVE ReportTransactions(_)
ReportTransactions(hs) ==
    IF hs = <<>> THEN <<>>
    ELSE LET before == ReportTransactions(SubSeq(hs, 1, Len(hs) - 1))
         IN  IF hs[Len(hs)].assignment = None THEN before
             ELSE Append(before, ReportTransactionRow(Len(hs), hs[Len(hs)]))

InitReport ==
    /\ \E n \in 0..MaxReportJobs : \E hs \in [1..n -> ReportHistories] :
          /\ jobs = ReportJobs(hs)
          /\ transactions = ReportTransactions(hs)
    /\ inflight = EmptyBag
    /\ resp = Resp("none", 0)

GetJobSummary == \E u \in UserIds : get_job_summary(u)
GetWorkerPerformance == \E u \in UserIds : get_worker_performance(u)

NextReport == GetJobSummary \/ GetWorkerPerformance

SpecReport == InitReport /\ [][NextReport]_vars

(* ------------------------------ claims --------------------------------- *)

TxnIds == DOMAIN transactions
JobIds == DOMAIN jobs

OpenTxns(j) ==
    {t \in TxnIds : transactions[t].job_id = j /\ transactions[t].status = "in_progress"}

RECURSIVE SumLossUpTo(_, _)
SumLossUpTo(j, n) ==
    IF n = 0 THEN 0
    ELSE SumLossUpTo(j, n - 1) +
         (IF transactions[n].job_id = j /\ transactions[n].status = "completed"
          THEN transactions[n].loss[1] ELSE 0)

\* The sum of the stored losses of job j's completed transactions.
SumLoss(j) == SumLossUpTo(j, Len(transactions))

\* C1: a completeTask by the same worker on a transaction that is already
\* completed fails, and leaves the transaction row and the job rows as the
\* first completion left them.  (The kind of the failure is left open here:
\* the formula asks only that the second call does not succeed.)
C1_SecondCompletionRejected ==
    [][\A u \in UserIds, tc \in WorkerTaskCompletionInputs, now \in Times :
         ( /\ complete_task(u, tc, now)
           /\ ~WorkerTaskCompletionRejected(tc)
           /\ tc.transaction_id \in TxnIds
           /\ transactions[tc.transaction_id].status = "completed"
           /\ transactions[tc.transaction_id].worker_id = u )
         => ( /\ resp'.code # 200
              /\ transactions' = transactions
              /\ jobs' = jobs )]_vars

\* C2: in every state of every interleaving of assignJob and completeTask
\* requests, a job has at most one transaction in status in_progress.
C2_OneOpenTransactionPerJob ==
    \A j \in JobIds : Cardinality(OpenTxns(j)) <= 1

\* C3: assignJob on a job whose status is in_progress, completed or cancelled
\* is rejected, inserts no transaction and leaves the job rows unchanged.
C3_AssignOnlyWhenAssignable ==
    [][\A u \in UserIds, j \in JobIdInputs, a \in JobAssignmentInputs :
         ( /\ assign_job(u, j, a)
           /\ j \in JobIds
           /\ jobs[j].status \notin {"created", "pending_assignment"} )
         => ( /\ resp'.code # 200
              /\ transactions' = transactions
              /\ jobs' = jobs )]_vars

\* C4: whenever no request is between two storage calls, also after a call
\* of assignJob has failed or the process has stopped between the insert and
\* the job update, every in_progress transaction belongs to a job that is
\* in_progress with that transaction's worker and stage.
C4_AssignAtomic ==
    Quiescent =>
        \A t \in TxnIds :
            transactions[t].status = "in_progress" =>
                LET job == jobs[transactions[t].job_id]
                IN  /\ job.status = "in_progress"
                    /\ job.current_worker_id = Some(transactions[t].worker_id)
                    /\ job.current_stage = Some(transactions[t].stage)

\* C5: whenever no request is between two storage calls, also after a call
\* of completeTask has failed or the process has stopped between its two
\* writes, the loss of every completed transaction has been added to its
\* job's total_loss: the total is at least the sum of those losses.
C5_CompleteAtomic ==
    Quiescent => \A j \in JobIds : SumLoss(j) <= jobs[j].total_loss

\* C6: in every state a job's current_worker_id is non-null exactly when its
\* status is in_progress.
C6_WorkerIffInProgress ==
    \A j \in JobIds :
        (jobs[j].current_worker_id # None) <=> (jobs[j].status = "in_progress")

\* C7: in every state of every interleaving of assignJob and completeTask
\* requests, faults included, a job's stored loss_percentage is
\* total_loss / initial_weight * 100 recomputed from its stored total_loss and
\* initial_weight, and 0 when initial_weight is 0.
C7_LossPercentageConsistent ==
    \A j \in JobIds :
        IF jobs[j].initial_weight = 0
        THEN jobs[j].loss_percentage = 0
        ELSE jobs[j].loss_percentage =
                 (jobs[j].total_loss * 100 * 1000) \div jobs[j].initial_weight

\* C7 witness: all requests have ended, a job of positive weight has a positive
\* total loss, and a completion was overtaken by another or cut short, so that
\* the ledger holds more loss than the job.
C7_Witness ==
    /\ Quiescent
    /\ \E j \in JobIds :
          /\ jobs[j].initial_weight > 0
          /\ jobs[j].total_loss > 0
          /\ jobs[j].loss_percentage > 0
          /\ SumLoss(j) > jobs[j].total_loss

\* C8: a completeTask by a worker on an in_progress transaction assigned to
\* another worker fails with the not-found kind (404) and changes no row.
C8_ForeignCompletionNotFound ==
    [][\A u \in UserIds, tc \in WorkerTaskCompletionInputs, now \in Times :
         ( /\ complete_task(u, tc, now)
           /\ ~WorkerTaskCompletionRejected(tc)
           /\ users[u] # "owner"
           /\ tc.transaction_id \in TxnIds
           /\ transactions[tc.transaction_id].status = "in_progress"
           /\ transactions[tc.transaction_id].worker_id # u )
         => ( /\ resp'.code = 404
              /\ transactions' = transactions
              /\ jobs' = jobs )]_vars

\* C9: a successful completeTask on an in_progress transaction with issued
\* weight I and accepted returned weight R sets the transaction to completed
\* with loss I - R and loss_percentage (I - R) / I * 100, adds exactly I - R
\* to the job's total_loss, clears the job's current_worker_id and sets the
\* job's status to pending_assignment.
C9_CompleteEffect ==
    [][resp' = Resp("complete_task", 200) =>
       \A u \in UserIds, tc \in WorkerTaskCompletionInputs, now \in Times :
         ( /\ complete_task(u, tc, now)
           /\ tc.transaction_id \in TxnIds
           /\ transactions[tc.transaction_id].status = "in_progress" )
         => LET id == tc.transaction_id
                I == transactions[id].issued_weight
                R == Round3(tc.returned_weight)
                j == transactions[id].job_id
            IN  /\ R <= I
                /\ transactions'[id].status = "completed"
                /\ transactions'[id].returned_weight = Some(R)
                /\ transactions'[id].loss = Some(I - R)
                /\ transactions'[id].loss_percentage =
                       Some(IF I = 0 THEN 0 ELSE ((I - R) * 100 * 1000) \div I)
                /\ jobs'[j].total_loss = jobs[j].total_loss + (I - R)
                /\ jobs'[j].current_worker_id = None
                /\ jobs'[j].status = "pending_assignment"]_vars

\* C9 witness: a completion has just succeeded; its transaction of 0.002 g
\* came back as 0.001 g, loss 0.001 g and 50 %, and its job of 0.002 g has
\* total loss 0.001 g and 50 %, no worker and status pending_assignment.
C9_Witness ==
    /\ resp = Resp("complete_task", 200)
    /\ \E t \in TxnIds :
          /\ transactions[t].status = "completed"
          /\ transactions[t].issued_weight = 2
          /\ transactions[t].returned_weight = Some(1)
          /\ transactions[t].loss = Some(1)
          /\ transactions[t].loss_percentage = Some(50000)
          /\ jobs[transactions[t].job_id].initial_weight = 2
          /\ jobs[transactions[t].job_id].total_loss = 1
          /\ jobs[transactions[t].job_id].loss_percentage = 50000
          /\ jobs[transactions[t].job_id].current_worker_id = None
          /\ jobs[transactions[t].job_id].status = "pending_assignment"

\* C10: a completeTask by the assigned worker on an in_progress transaction
\* with a returned weight that is not positive or exceeds the issued weight
\* fails with a validation kind (422 from the body, 400 from the handler) and
\* changes no row.
C10_BadReturnedWeightRejected ==
    [][\A u \in UserIds, tc \in WorkerTaskCompletionInputs, now \in Times :
         ( /\ complete_task(u, tc, now)
           /\ users[u] # "owner"
           /\ tc.transaction_id \in TxnIds
           /\ transactions[tc.transaction_id].status = "in_progress"
           /\ transactions[tc.transaction_id].worker_id = u
           /\ \/ tc.returned_weight <= 0
              \/ Round3(tc.returned_weight) > transactions[tc.transaction_id].issued_weight )
         => ( /\ resp'.code \in {400, 422}
              /\ transactions' = transactions
              /\ jobs' = jobs )]_vars

\* C11: when no storage call fails, every failure is a not-found failure
\* (absent job in assignJob, getJobDetail, updateJob; absent or foreign
\* transaction in completeTask), a validation failure (returned weight above
\* the issued weight, empty update, rejected body) or a role failure, and
\* each reaches the caller with its own kind: none is answered with the
\* internal-failure kind (500).
C11_ErrorKindsUnmodified ==
    resp.code # 500

\* C12: every stored job has initial_weight > 0 and every stored transaction
\* has issued_weight > 0, for every input createJob and assignJob accept.
C12_StoredWeightsPositive ==
    /\ \A j \in JobIds : jobs[j].initial_weight > 0
    /\ \A t \in TxnIds : transactions[t].issued_weight > 0

C14_UpdateJobFrame ==
    [][resp'.op = "update_job" =>
        /\ transactions' = transactions
        /\ DOMAIN jobs' = DOMAIN jobs
        /\ \A k \in DOMAIN jobs :
              /\ jobs'[k].total_loss = jobs[k].total_loss
              /\ jobs'[k].loss_percentage = jobs[k].loss_percentage
              /\ jobs'[k].initial_weight = jobs[k].initial_weight
              /\ jobs'[k].current_stage = jobs[k].current_stage
              /\ jobs'[k].current_worker_id = jobs[k].current_worker_id
        /\ \A j \in JobIdInputs, d \in JobUpdateDetailInputs :
              \/ \A k \in DOMAIN jobs :
                    /\ k # j => jobs'[k] = jobs[k]
                    /\ d.design_no = None => jobs'[k].design_no = jobs[k].design_no
                    /\ d.item_category = None => jobs'[k].item_category = jobs[k].item_category
                    /\ d.description = None => jobs'[k].description = jobs[k].description
                    /\ d.status = None => jobs'[k].status = jobs[k].status
                    /\ (k = j /\ resp'.code = 200) =>
                          /\ d.design_no # None => jobs'[k].design_no = d.design_no[1]
                          /\ d.item_category # None =>
                                jobs'[k].item_category = d.item_category[1]
                          /\ d.description # None => jobs'[k].description = d.description[1]
                          /\ d.status # None => jobs'[k].status = d.status[1]
              \/ ~update_job(1, j, d)
      ]_vars

\* C14 witness: an updateJob has succeeded on a job that has accumulated loss
\* and a completed transaction; it set design_no and status and left
\* item_category as it was created.
C14_Witness ==
    /\ resp = Resp("update_job", 200)
    /\ \E j \in JobIds :
          /\ jobs[j].total_loss > 0
          /\ jobs[j].design_no = "D2"
          /\ jobs[j].status = "cancelled"
          /\ jobs[j].item_category = "ring"
          /\ \E t \in TxnIds : transactions[t].job_id = j /\ transactions[t].status = "completed"

\* C15: in every reachable state, a transaction in progress has no
\* returned_weight, returned_at, loss or loss_percentage, and a completed
\* transaction has all four, with returned_weight <= issued_weight and
\* loss = issued_weight - returned_weight.
C15_TransactionFieldPresence ==
    \A t \in TxnIds :
        LET transaction == transactions[t]
        IN  /\ transaction.status \in {"in_progress", "completed"}
            /\ transaction.status = "in_progress" =>
                  /\ transaction.returned_weight = None
                  /\ transaction.returned_at = None
                  /\ transaction.loss = None
                  /\ transaction.loss_percentage = None
            /\ transaction.status = "completed" =>
                  /\ transaction.returned_weight # None
                  /\ transaction.returned_at # None
                  /\ transaction.loss # None
                  /\ transaction.loss_percentage # None
                  /\ transaction.returned_weight[1] <= transaction.issued_weight
                  /\ transaction.loss[1] =
                        transaction.issued_weight - transaction.returned_weight[1]

\* C15 witness: one transaction is completed with a loss and another is open.
C15_Witness ==
    \E t1, t2 \in TxnIds :
        /\ transactions[t1].status = "completed"
        /\ transactions[t1].loss # None
        /\ transactions[t1].loss[1] > 0
        /\ transactions[t2].status = "in_progress"

\* C16: a job's current_stage is non-null only while the job is in_progress;
\* after a completeTask has moved the job to pending_assignment, and in
\* status created, completed or cancelled, current_stage is null.
C16_StageOnlyWhileInProgress ==
    \A j \in JobIds :
        jobs[j].current_stage # None => jobs[j].status = "in_progress"

\* C17: every completed transaction has loss >= 0 and a loss_percentage
\* between 0 and 100 (in thousandths of a percent), and every job has
\* total_loss >= 0.
C17_LossRanges ==
    /\ \A t \in TxnIds :
          transactions[t].status = "completed" =>
              /\ transactions[t].loss[1] >= 0
              /\ transactions[t].loss_percentage[1] >= 0
              /\ transactions[t].loss_percentage[1] <= 100 * 1000
    /\ \A j \in JobIds : jobs[j].total_loss >= 0

\* C17 witness: a completed transaction lost part of what was issued, and
\* its job carries the loss.
C17_Witness ==
    \E t \in TxnIds :
        /\ transactions[t].status = "completed"
        /\ transactions[t].loss[1] > 0
        /\ transactions[t].loss_percentage[1] > 0
        /\ transactions[t].loss_percentage[1] < 100 * 1000
        /\ jobs[transactions[t].job_id].total_loss > 0

\* The completed transactions of a worker, for the claims about the report.
CompletedBy(w) ==
    {t \in TxnIds : transactions[t].status = "completed" /\ transactions[t].worker_id = w}

RECURSIVE SumLossOf(_)
SumLossOf(T) ==
    IF T = {} THEN 0
    ELSE LET t == CHOOSE x \in T : TRUE
         IN  transactions[t].loss[1] + SumLossOf(T \ {t})

RECURSIVE SumTotalLossOf(_)
SumTotalLossOf(J) ==
    IF J = {} THEN 0
    ELSE LET j == CHOOSE x \in J : TRUE
         IN  jobs[j].total_loss + SumTotalLossOf(J \ {j})

\* C18: the job summary counts all jobs, the completed ones and the ones in
\* progress; pending_jobs is the rest, which is the number of jobs created,
\* pending_assignment or cancelled; the three buckets add up to total_jobs
\* and total_loss is the sum of the jobs' total_loss.
C18_JobSummaryCounts ==
    resp.op = "get_job_summary" =>
        /\ resp.code = 200
        /\ resp.body.total_jobs = Cardinality(JobIds)
        /\ resp.body.completed_jobs =
              Cardinality({j \in JobIds : jobs[j].status = "completed"})
        /\ resp.body.in_progress_jobs =
              Cardinality({j \in JobIds : jobs[j].status = "in_progress"})
        /\ resp.body.pending_jobs =
              resp.body.total_jobs - resp.body.completed_jobs - resp.body.in_progress_jobs
        /\ resp.body.pending_jobs =
              Cardinality({j \in JobIds :
                  jobs[j].status \in {"created", "pending_assignment", "cancelled"}})
        /\ resp.body.completed_jobs + resp.body.in_progress_jobs + resp.body.pending_jobs
              = resp.body.total_jobs
        /\ resp.body.total_loss = SumTotalLossOf(JobIds)

\* C18 witness: a summary over three jobs, one completed, one in progress
\* and one pending, with loss recorded.
C18_Witness ==
    /\ resp.op = "get_job_summary"
    /\ resp.body.total_jobs = 3
    /\ resp.body.completed_jobs = 1
    /\ resp.body.in_progress_jobs = 1
    /\ resp.body.pending_jobs = 1
    /\ resp.body.total_loss > 0

\* C19: the worker performance report has exactly one entry per worker with a
\* completed transaction; an entry's total_jobs is the number of the worker's
\* completed transactions and its total_loss the sum of their losses; the
\* entries are in descending order of total_loss / total_jobs.
C19_WorkerPerformanceEntries ==
    (resp.op = "get_worker_performance" /\ resp.code = 200) =>
        LET body == resp.body
        IN  /\ {body[i].worker_id : i \in DOMAIN body} =
                  {w \in UserIds : CompletedBy(w) # {}}
            /\ \A i, k \in DOMAIN body : body[i].worker_id = body[k].worker_id => i = k
            /\ \A i \in DOMAIN body :
                  /\ body[i].total_jobs = Cardinality(CompletedBy(body[i].worker_id))
                  /\ body[i].total_loss = SumLossOf(CompletedBy(body[i].worker_id))
            /\ \A i, k \in DOMAIN body :
                  i < k => body[i].total_loss * body[k].total_jobs
                              >= body[k].total_loss * body[i].total_jobs

\* C19 witness: a report with two workers; the worker listed second completed
\* the first transaction of the table and has two completed transactions,
\* with a lower average loss than the worker listed first.
C19_Witness ==
    /\ resp.op = "get_worker_performance"
    /\ resp.code = 200
    /\ Len(resp.body) = 2
    /\ resp.body[1].total_jobs = 1
    /\ resp.body[2].total_jobs = 2
    /\ resp.body[2].total_loss > 0
    /\ resp.body[2].worker_id = transactions[1].worker_id
    /\ resp.body[1].total_loss * resp.body[2].total_jobs
          > resp.body[2].total_loss * resp.body[1].total_jobs

\* C20: whenever no request is in flight, after any interleaving of assignJob
\* and completeTask calls, each job's total_loss equals the sum of the losses
\* stored in the job's completed transactions; two completeTask requests
\* running at once against one job lose neither of the two increments.
C20_LedgerMatchesJob ==
    Quiescent => \A j \in JobIds : jobs[j].total_loss = SumLoss(j)

\* C21: a job whose status is completed or cancelled changes status only by an
\* updateJob; in particular no other step, such as a completeTask on a
\* transaction of the job that is still open, moves it to pending_assignment.
C21_TerminalNotReopenedByCompletion ==
    [][\A j \in JobIds :
          (jobs[j].status \in {"completed", "cancelled"}
              /\ jobs'[j].status = "pending_assignment")
          => resp'.op = "update_job"
      ]_vars

\* C22: in every reachable state each job's total_loss is at most its
\* initial_weight, so that its loss_percentage is at most 100, whatever
\* weights assignJob has issued.
C22_LossWithinInitialWeight ==
    \A j \in JobIds :
        /\ jobs[j].total_loss <= jobs[j].initial_weight
        /\ jobs[j].loss_percentage <= 100 * 1000

\* C23: every transaction in progress is assigned to an existing user whose
\* role is not owner, the only kind of user whose completeTask is let
\* through, so that no assignment stays open with nobody allowed to
\* complete it.
C23_OpenAssignmentCompletable ==
    \A t \in TxnIds :
        transactions[t].status = "in_progress" =>
            /\ transactions[t].worker_id \in UserIds
            /\ users[transactions[t].worker_id] # "owner"

====
